---- MODULE Spec2Model ----
(***************************************************************************)
(* A model of the speech-to-speech backend: the Cognito admission gate     *)
(* (backend/cognito.py), the per-connection Bedrock stream manager and the *)
(* websocket handlers (backend/nova_s2s_backend.py) and the patient lookup *)
(* (backend/patient_db.py).                                                *)
(*                                                                         *)
(* Python strings that the code takes apart (request paths, tokens) are    *)
(* sequences of one-character strings.  Python's None is the record None;  *)
(* a present string s is Str(s).                                           *)
(*                                                                         *)
(* A task runs from one await that suspends to the next: the receive of a  *)
(* frame or of a client message, a get on an empty queue, a send that      *)
(* writes to the model stream, the sleep of initialize_stream.  A write to *)
(* an open model stream and a send on an open websocket succeed.           *)
(***************************************************************************)
EXTENDS Integers, Sequences, FiniteSets, TLC

VARIABLES
    call,           \* a pending or finished call of a pure function (cognito.py)
    devMode,        \* RUNNING_IN_DEV_MODE
    request,        \* the connection request: the path and the token put in it
    jwks_cache,     \* the lru_cache of get_cognito_jwks, its calls and fetches counted
    hpc,            \* where authenticated_handler / websocket_handler stands
    wsOpen,         \* the client has not closed its websocket
    clientIn,       \* the client messages the handler has read, in order
    clientOut,      \* the messages sent on the websocket, in order
    sm,             \* the BedrockStreamManager of the connection
    dpc,            \* where _process_responses stands
    dloc,           \* its locals across the awaits of a tool-result triple
    ppc,            \* where _process_audio_input stands
    fpc,            \* where forward_responses stands
    framesIn,       \* the frames received from the model stream, in order
    modelStream,    \* the events written to the model stream's input, in order
    nextUuid,       \* the number of uuid4() calls made so far, plus one
    hist            \* history: chunks enqueued, dispatches made, why the loop ended

connVars == <<devMode, request, jwks_cache, hpc, wsOpen, clientIn, clientOut, sm, dpc, dloc,
              ppc, fpc, framesIn, modelStream, nextUuid, hist>>

vars == <<call, connVars>>

(***************************************************************************)
(* Python values                                                           *)
(***************************************************************************)
None == [some |-> FALSE, str |-> <<>>]

Str(s) == [some |-> TRUE, str |-> s]

\* a key that a dict does not hold, a claim that a token does not carry
Absent == "<absent>"

\* bool(x) of an optional string: None and "" are falsy
TruthyStr_Always(x) == TRUE

TruthyStr(x) == x.some /\ Len(x.str) > 0

(***************************************************************************)
(* str methods used by cognito.extract_token_from_url                      *)
(***************************************************************************)
RECURSIVE LStrip(_, _)
LStrip(s, c) == IF s # <<>> /\ Head(s) = c THEN LStrip(Tail(s), c) ELSE s

RECURSIVE RStrip(_, _)
RStrip(s, c) ==
    IF s # <<>> /\ s[Len(s)] = c THEN RStrip(SubSeq(s, 1, Len(s) - 1), c) ELSE s

\* s.strip(c)
Strip(s, c) == RStrip(LStrip(s, c), c)

\* s.startswith(p)
StartsWith(s, p) == Len(s) >= Len(p) /\ SubSeq(s, 1, Len(p)) = p

\* s.find(sub) + 1 : the first position where sub occurs, 0 when it does not
Find(s, sub) ==
    LET hits == {i \in 1..(Len(s) - Len(sub) + 1) : SubSeq(s, i, i + Len(sub) - 1) = sub}
    IN  IF hits = {} THEN 0 ELSE CHOOSE i \in hits : \A j \in hits : i <= j

\* sub in s
Contains(s, sub) == Find(s, sub) # 0

\* s.split(sep) for a one-character sep: "".split("/") is [""]
RECURSIVE Split(_, _)
Split(s, sep) ==
    LET i == Find(s, <<sep>>)
    IN  IF i = 0 THEN <<s>>
        ELSE <<SubSeq(s, 1, i - 1)>> \o Split(SubSeq(s, i + 1, Len(s)), sep)

\* s.split(sep, 1)
Split1(s, sep) ==
    LET i == Find(s, <<sep>>)
    IN  IF i = 0 THEN <<s>> ELSE <<SubSeq(s, 1, i - 1), SubSeq(s, i + 1, Len(s))>>

\* s.replace("+", " ")
PlusToSpace(s) == [i \in 1..Len(s) |-> IF s[i] = "+" THEN " " ELSE s[i]]

(***************************************************************************)
(* urllib.parse as extract_token_from_url uses it.  The request alphabet   *)
(* holds no "%" and no ":", so unquote() leaves every name and value as it *)
(* is and no scheme is split off a path that does not start with "/".      *)
(***************************************************************************)
DummyOrigin == <<"h", "t", "t", "p", ":", "/", "/", "d", "u", "m", "m", "y">>

SchemePrefix == <<"h", "t", "t", "p", ":">>

\* the first position in s of a character of cs, Len(s)+1 when there is none
FirstOf(s, cs) ==
    LET hits == {i \in 1..Len(s) : s[i] \in cs}
    IN  IF hits = {} THEN Len(s) + 1 ELSE CHOOSE i \in hits : \A j \in hits : i <= j

\* urlparse(url).query : scheme and netloc are split off, then the fragment
\* after the first "#", then the query after the first "?"
UrlQuery(url) ==
    LET noScheme == IF StartsWith(url, SchemePrefix)
                    THEN SubSeq(url, Len(SchemePrefix) + 1, Len(url)) ELSE url
        noNetloc == IF StartsWith(noScheme, <<"/", "/">>)
                    THEN LET rest == SubSeq(noScheme, 3, Len(noScheme))
                         IN  SubSeq(rest, FirstOf(rest, {"/", "?", "#"}), Len(rest))
                    ELSE noScheme
        noFrag   == Split1(noNetloc, "#")[1]
        pq       == Split1(noFrag, "?")
    IN  IF Len(pq) = 2 THEN pq[2] ELSE <<>>

\* parse_qs(query): the (name, value) pairs in order; a field without "=" and
\* a field with a blank value are left out (keep_blank_values is off)
RECURSIVE QsPairs(_)
QsPairs(fields) ==
    IF fields = <<>> THEN <<>>
    ELSE LET nv == Split1(Head(fields), "=")
         IN  (IF Head(fields) # <<>> /\ Len(nv) = 2 /\ Len(nv[2]) > 0
              THEN <<[name |-> PlusToSpace(nv[1]), value |-> PlusToSpace(nv[2])]>>
              ELSE <<>>) \o QsPairs(Tail(fields))

ParseQs(query) == QsPairs(Split(query, "&"))

TokenName == <<"t", "o", "k", "e", "n">>

TokenEq == <<"t", "o", "k", "e", "n", "=">>

\* query_params["token"][0] when "token" in query_params, None otherwise
QsFirstToken(pairs) ==
    LET hits == {i \in 1..Len(pairs) : pairs[i].name = TokenName}
    IN  IF hits = {} THEN None
        ELSE Str(pairs[CHOOSE i \in hits : \A j \in hits : i <= j].value)

\* re.search(r"token=([^&]+)", path).group(1), None when nothing matches
RegexToken(path) ==
    LET n    == Len(TokenEq)
        hits == {i \in 1..(Len(path) - n) :
                    /\ SubSeq(path, i, i + n - 1) = TokenEq
                    /\ path[i + n] # "&"}
    IN  IF hits = {} THEN None
        ELSE LET i    == CHOOSE k \in hits : \A j \in hits : k <= j
                 rest == SubSeq(path, i + n, Len(path))
             IN  Str(SubSeq(rest, 1, FirstOf(rest, {"&"}) - 1))

(***************************************************************************)
(* cognito.extract_token_from_url                                          *)
(***************************************************************************)
\* a path part longer than this, holding a ".", is taken for a JWT
JwtMinLen == 50

LooksLikeJwt(part) == Contains(part, <<".">>) /\ Len(part) > JwtMinLen

\* the first qualifying part of path.strip("/").split("/"), None without one
FirstJwtPart(parts) ==
    LET hits == {i \in 1..Len(parts) : LooksLikeJwt(parts[i])}
    IN  IF hits = {} THEN None
        ELSE Str(parts[CHOOSE i \in hits : \A j \in hits : i <= j])

\* the query-parameter fallback
QueryFallback(path) ==
    IF Contains(path, <<"?">>) /\ Contains(path, TokenEq)
    THEN LET query == IF StartsWith(path, <<"/">>)
                      THEN UrlQuery(DummyOrigin \o path)
                      ELSE UrlQuery(path)
             tok   == QsFirstToken(ParseQs(query))
         IN  IF tok.some THEN tok ELSE RegexToken(path)
    ELSE None

extract_token_from_url(path) ==
    LET fromPath == FirstJwtPart(Split(Strip(path, "/"), "/"))
    IN  IF fromPath.some THEN fromPath ELSE QueryFallback(path)

(***************************************************************************)
(* Requests: a token placed in a path                                      *)
(***************************************************************************)
RECURSIVE Rep(_, _)
Rep(s, n) == IF n = 0 THEN <<>> ELSE s \o Rep(s, n - 1)

\* the token of the documented scenario: "abcd.efgh" * 10
TokenUnit == <<"a", "b", "c", "d", ".", "e", "f", "g", "h">>

\* a long token without a "."
DotlessUnit == <<"a", "b", "c", "d", "e", "f">>

\* the longest token is MaxTokenReps units long
MaxTokenReps == 10

Tokens ==
    {Rep(TokenUnit, k) : k \in 1..MaxTokenReps}
        \cup {Rep(DotlessUnit, k) : k \in 1..MaxTokenReps}
        \cup {SubSeq(Rep(TokenUnit, 6), 1, n) : n \in {JwtMinLen, JwtMinLen + 1}}

\* the documented placements: /api/{token}, /api/api/{token}, /?token={token}
Placements == {"segment", "doubled", "query"}

PlacementPrefix(pl) ==
    CASE pl = "segment" -> <<"/", "a", "p", "i", "/">>
      [] pl = "doubled" -> <<"/", "a", "p", "i", "/", "a", "p", "i", "/">>
      [] pl = "query"   -> <<"/", "?">> \o TokenEq
      \* further shapes a client can send
      [] pl = "apiquery" -> <<"/", "a", "p", "i", "/", "?">> \o TokenEq
      [] pl = "bare"     -> <<"?">> \o TokenEq
      [] pl = "other"    -> <<"/", "x", "?", "m", "y">> \o TokenEq
      [] pl = "none"     -> <<"/", "a", "p", "i", "/">>

PathOf(pl, token) == IF pl = "none" THEN PlacementPrefix(pl) ELSE PlacementPrefix(pl) \o token

IsJwtShaped(token) == Contains(token, <<".">>) /\ Len(token) > JwtMinLen

(***************************************************************************)
(* patient_db.PatientDBService                                             *)
(*                                                                         *)
(* A name, like every JSON value the model needs, is a string; NotAString  *)
(* stands for a JSON value that is not a string (a number), and Absent for *)
(* a key that is not there.                                                *)
(***************************************************************************)
NotAString == "<number>"

\* str.lower() on the names and tool names the model uses
Lower(x) ==
    CASE x = "Jaime Lopez"     -> "jaime lopez"
      [] x = "JAIME LOPEZ"     -> "jaime lopez"
      [] x = "getOrderStatus"  -> "getorderstatus"
      [] x = "getLabResults"   -> "getlabresults"
      [] x = "getProductInfo"  -> "getproductinfo"
      [] x = "transferToLiveAgent" -> "transfertoliveagent"
      [] x = "unknownTool"     -> "unknowntool"
      [] OTHER                 -> x

\* records as _load_data reads them from data/patients.json
PatientData ==
    <<[Name |-> "Elysabeth Vasilevna", OrderStatus |-> "Processing",
       Action |-> "Wait", LabResult |-> "Pending"],
      [Name |-> "Jaime Lopez", OrderStatus |-> "Shipped",
       Action |-> "Track", LabResult |-> "Normal"]>>

NoPatient == [found |-> FALSE, raised |-> FALSE, Name |-> Absent, OrderStatus |-> Absent,
              Action |-> Absent, LabResult |-> Absent]

\* get_patient_by_name: the first record whose lowered Name is the lowered
\* argument, None without one; patient_name.lower() raises AttributeError when
\* the argument is not a string
get_patient_by_name(patient_name) ==
    IF patient_name = NotAString THEN [NoPatient EXCEPT !.raised = TRUE]
    ELSE LET hits == {i \in 1..Len(PatientData) :
                         Lower(PatientData[i].Name) = Lower(patient_name)}
         IN  IF hits = {} THEN NoPatient
             ELSE LET r == PatientData[CHOOSE i \in hits : \A j \in hits : i <= j]
                  IN  [found |-> TRUE, raised |-> FALSE, Name |-> r.Name,
                       OrderStatus |-> r.OrderStatus, Action |-> r.Action,
                       LabResult |-> r.LabResult]

(***************************************************************************)
(* BedrockStreamManager.processToolUse                                     *)
(*                                                                         *)
(* toolUseContent is the toolUse event's body, or the "" the constructor   *)
(* leaves (isDict = FALSE).  Its content field is a JSON text:             *)
(*   text = "none"     the field is missing or empty                       *)
(*   text = "invalid"  json.loads raises JSONDecodeError                   *)
(*   text = "object"   a JSON object with the parameters customerName and  *)
(*                     query (Absent when not given)                       *)
(* A result string is the sequence of the pieces the code concatenates.    *)
(***************************************************************************)
NoToolUse == [isDict |-> FALSE, text |-> "none", customerName |-> Absent, query |-> Absent]

ToolUseBody(text, customerName) ==
    [isDict |-> TRUE, text |-> text, customerName |-> customerName, query |-> Absent]

\* a tool result: {} has no "result"; raised names the exception that left
\* processToolUse instead of a result
ToolReturn(pieces) == [raised |-> "none", hasResult |-> TRUE, result |-> pieces, status |-> Absent]

ToolReturnEmpty == [raised |-> "none", hasResult |-> FALSE, result |-> <<>>, status |-> Absent]

ToolRaise(exc) == [raised |-> exc, hasResult |-> FALSE, result |-> <<>>, status |-> Absent]

\* dict.get(key, "") of the parsed content: falsy when missing or empty
ParamMissing(v) == v = Absent \/ v = ""

OrderStatusRoute_NotFoundIsError(c) ==
    IF ParamMissing(c.customerName)
    THEN ToolReturn(<<"Customer not found.ask for customer name.">>)
    ELSE LET patient == get_patient_by_name(c.customerName)
         IN  IF patient.raised THEN ToolRaise("AttributeError")
             ELSE IF patient.found
             THEN ToolReturn(<<"Order Status: ", patient.OrderStatus,
                               " , Action : ", patient.Action>>)
             ELSE [ToolReturn(<<"No orders found for the customer.">>)
                      EXCEPT !.status = "error"]

OrderStatusRoute(c) ==
    IF ParamMissing(c.customerName)
    THEN ToolReturn(<<"Customer not found.ask for customer name.">>)
    ELSE LET patient == get_patient_by_name(c.customerName)
         IN  IF patient.raised THEN ToolRaise("AttributeError")
             ELSE IF patient.found
             THEN ToolReturn(<<"Order Status: ", patient.OrderStatus,
                               " , Action : ", patient.Action>>)
             ELSE ToolReturn(<<"No orders found for the customer.">>)

LabResultsRoute(c) ==
    IF ParamMissing(c.customerName)
    THEN ToolReturn(<<"No customer found. ask for customer Name">>)
    ELSE LET patient == get_patient_by_name(c.customerName)
         IN  IF patient.raised THEN ToolRaise("AttributeError")
             ELSE IF patient.found THEN ToolReturn(<<patient.LabResult>>)
             ELSE ToolReturn(<<"No lab results found.">>)

\* kb.main(query) never raises: it returns the retrieved output or 1
ProductInfoRoute(c) ==
    ToolReturn(<<"kb.main: ", IF ParamMissing(c.query) THEN "bad query" ELSE c.query>>)

KnownTools == {"getproductinfo", "getorderstatus", "getlabresults", "transfertoliveagent"}

processToolUse(toolName, toolUseContent) ==
    LET name == Lower(toolName)
    IN  IF ~toolUseContent.isDict THEN ToolRaise("AttributeError")  \* "".get
        ELSE IF toolUseContent.text = "invalid" THEN ToolRaise("JSONDecodeError")
        ELSE IF toolUseContent.text = "none"
             \* query_json was never bound: a known route raises UnboundLocalError
        THEN IF name \in KnownTools THEN ToolRaise("UnboundLocalError") ELSE ToolReturnEmpty
        ELSE CASE name = "getproductinfo"      -> ProductInfoRoute(toolUseContent)
               [] name = "getorderstatus"      -> OrderStatusRoute(toolUseContent)
               [] name = "getlabresults"       -> LabResultsRoute(toolUseContent)
               [] name = "transfertoliveagent" ->
                      ToolReturn(<<"Transferring customer to live agent.">>)
               [] OTHER                        -> ToolReturnEmpty

(***************************************************************************)
(* cognito.validate_token                                                  *)
(*                                                                         *)
(* What PyJWT and jwcrypto find in a token is given by a record jwt:       *)
(*   wellFormed  get_unverified_header can read the header                 *)
(*   kid         the header's key id ("" when it has none)                 *)
(*   sigOk       the RS256 signature verifies under the key of that kid    *)
(*   expired     the exp claim has passed                                  *)
(*   token_use, client_id, sub   the claims (Absent when not in the token) *)
(* cfg holds USER_POOL_ID and CLIENT_ID ("" when the variable is not set). *)
(* jwks is what get_cognito_jwks() returns: fetched = FALSE is its None,   *)
(* doc = FALSE the empty document {}, kids the key ids of its "keys".      *)
(***************************************************************************)
NoClaims == [present |-> FALSE, sub |-> Absent, token_use |-> Absent, client_id |-> Absent]

ClaimsOf(jwt) ==
    [present |-> TRUE, sub |-> jwt.sub, token_use |-> jwt.token_use, client_id |-> jwt.client_id]

Invalid == [valid |-> FALSE, claims |-> NoClaims]

\* get_cognito_jwks() when the fetch raises: None
JwksFetchFailed == [fetched |-> FALSE, doc |-> FALSE, kids |-> {}]

\* bool(jwks): None and {} are falsy
JwksTruthy(jwks) == jwks.fetched /\ jwks.doc

\* the checks made on the verified claims
ClaimsAccepted_NoClientId(claims, cfg) == claims.token_use \in {"id", "access"}

ClaimsAccepted(claims, cfg) ==
    /\ claims.token_use \in {"id", "access"}
    /\ claims.client_id = cfg.CLIENT_ID

\* the loop that looks for the key with the header's kid
KeyFound(jwks, kid) == kid \in jwks.kids

\* jwt.decode(token, key, algorithms=["RS256"], verify_exp): raises on a bad
\* signature or an expired token
DecodeRaises(jwt) == ~jwt.sigOk \/ jwt.expired

\* whether validate_token gets as far as calling get_cognito_jwks()
ReachesJwks(token, jwt, cfg) ==
    /\ TruthyStr(token)
    /\ cfg.USER_POOL_ID # "" /\ cfg.CLIENT_ID # ""
    /\ jwt.wellFormed
    /\ jwt.kid # ""

validate_token(token, jwt, cfg, jwks) ==
    IF ~TruthyStr(token) THEN Invalid
    ELSE IF cfg.USER_POOL_ID = "" \/ cfg.CLIENT_ID = "" THEN Invalid
    ELSE IF ~jwt.wellFormed THEN Invalid            \* jwt.InvalidTokenError
    ELSE IF jwt.kid = "" THEN Invalid
    ELSE IF ~JwksTruthy(jwks) THEN Invalid
    ELSE IF ~KeyFound(jwks, jwt.kid) THEN Invalid
    ELSE IF DecodeRaises(jwt) THEN Invalid          \* Expired / InvalidTokenError
    ELSE IF ~ClaimsAccepted(ClaimsOf(jwt), cfg) THEN Invalid
    ELSE [valid |-> TRUE, claims |-> ClaimsOf(jwt)]

(***************************************************************************)
(* Python truthiness of what the handlers bind to is_valid and token       *)
(***************************************************************************)
PyBool(b) == [kind |-> "bool", truth |-> b, len |-> 0]

\* a tuple of n items; truth keeps its first item
PyTuple(n, first) == [kind |-> "tuple", truth |-> first, len |-> n]

\* bool(v): a tuple is truthy when it is not empty
Truthy(v) == IF v.kind = "tuple" THEN v.len > 0 ELSE v.truth

\* "is_valid, _ = cognito.validate_token(token) if not DEV else True, None" and
\* "is_valid, claims = cognito.validate_websocket_request(url, headers) if not
\* DEV else True, {}": the conditional expression is the first item of the pair
\* on the right, so is_valid is bound to the whole (valid, claims) tuple that
\* the validation returns, or to True in development mode
BoundIsValid(dev, result) == IF ~dev THEN PyTuple(2, result.valid) ELSE PyBool(TRUE)

\* get_cognito_jwks() under lru_cache(maxsize=1): the first return value, None
\* included, is kept; fetched is what the endpoint answers if it is asked
JwksValue(cache, fetched) == IF cache.cached THEN cache.value ELSE fetched

\* the cache after n calls of get_cognito_jwks(): the first call of the
\* process fetches, and what it returns is kept
JwksAfter_NoneNotKept(cache, fetched, n) ==
    IF n = 0 THEN cache
    ELSE IF cache.cached THEN [cache EXCEPT !.asks = @ + n]
    ELSE IF fetched = JwksFetchFailed
    THEN [cache EXCEPT !.asks = @ + n, !.fetches = @ + n]
    ELSE [cached |-> TRUE, value |-> fetched, asks |-> cache.asks + n,
          fetches |-> cache.fetches + 1]

JwksAfter(cache, fetched, n) ==
    IF n = 0 THEN cache
    ELSE IF cache.cached THEN [cache EXCEPT !.asks = @ + n]
    ELSE [cached |-> TRUE, value |-> fetched, asks |-> cache.asks + n,
          fetches |-> cache.fetches + 1]

\* cognito.validate_websocket_request
validate_websocket_request(path, jwtOf, cfg, jwks) ==
    LET token == extract_token_from_url(path)
    IN  IF ~TruthyStr(token) THEN Invalid
        ELSE LET r == validate_token(token, jwtOf[token], cfg, jwks)
             IN  IF ~r.valid THEN Invalid ELSE r

(***************************************************************************)
(* Events, frames and client messages                                      *)
(***************************************************************************)
\* the deployed configuration of the connection specifications
DeployedConfig == [USER_POOL_ID |-> "pool-1", CLIENT_ID |-> "client-1"]

GoodJwt ==
    [wellFormed |-> TRUE, kid |-> "k1", sigOk |-> TRUE, expired |-> FALSE,
     token_use |-> "access", client_id |-> "client-1", sub |-> "user-1"]

\* what the JWT library makes of a string that is not the client's token
MalformedJwt == [GoodJwt EXCEPT !.wellFormed = FALSE, !.kid = ""]

\* the decoding of every string validate_token may be handed for a request
JwtOf(req) ==
    [t \in {Str(req.token), extract_token_from_url(req.path)} |->
        IF t = Str(req.token) THEN req.jwt ELSE MalformedJwt]

Request(pl, token, jwt) ==
    [placement |-> pl, token |-> token, path |-> PathOf(pl, token), jwt |-> jwt]

\* str(uuid.uuid4()): the n-th call's value; no two calls return the same
UuidNames == <<"uuid-1", "uuid-2", "uuid-3", "uuid-4", "uuid-5", "uuid-6", "uuid-7", "uuid-8">>

Uuid(n) == UuidNames[n]

\* the outline of a JSON object on the wire: its top-level keys and the number
\* of keys under its "event"
Wire(top, variants) == [top |-> top, variants |-> variants]

\* {"event": {<variant>: ...}}, as the dict literals of the code are written
BuiltEventWire_Bare == Wire({"variant"}, 0)

BuiltEventWire == Wire({"event"}, 1)

\* an event written to the model stream: by (the task), kind (the variant),
\* tag (the number of the client message it came from), cause (the number of
\* the frame the demuxer was handling)
StreamEvent(by, kind, promptName, contentName, toolUseId, status, result, tag, cause) ==
    [by |-> by, kind |-> kind, promptName |-> promptName, contentName |-> contentName,
     toolUseId |-> toolUseId, status |-> status, result |-> result, tag |-> tag,
     cause |-> cause, wire |-> BuiltEventWire]

\* a frame of the model stream
Frame(kind, type, toolName, body) ==
    [kind |-> kind, type |-> type, toolName |-> toolName, toolUseId |-> "", body |-> body,
     wire |-> IF kind \in {"raw", "badUtf8"} THEN Wire({}, 0) ELSE Wire({"event"}, 1)]

TextFrame == Frame("textOutput", "", "", NoToolUse)

ToolEndFrame == Frame("contentEnd", "TOOL", "", NoToolUse)

TurnEndFrame == Frame("contentEnd", "TEXT", "", NoToolUse)

\* a frame whose text is not JSON: json.loads raises JSONDecodeError
RawFrame == Frame("raw", "", "", NoToolUse)

\* a frame whose bytes are not UTF-8: bytes_.decode("utf-8") raises
\* UnicodeDecodeError, which is no JSONDecodeError
BadUtf8Frame == Frame("badUtf8", "", "", NoToolUse)

\* the frames that cannot be JSON-decoded
Undecodable(f) == f.kind \in {"raw", "badUtf8"}

ToolUseFrame(toolName, text, customerName) ==
    Frame("toolUse", "", toolName, ToolUseBody(text, customerName))

\* the toolUseId of the n-th frame: the model numbers its tool uses
ToolUseIdNames == <<"tu-1", "tu-2", "tu-3", "tu-4", "tu-5", "tu-6", "tu-7", "tu-8">>

ToolUseIdOf(n) == ToolUseIdNames[n]

\* a client message: json (it parses), hasEvent, kind (the first key of its
\* "event"), and the fields the handler reads
ClientMsg(json, hasEvent, kind, promptName, contentName, type, hasContent) ==
    [json |-> json, hasEvent |-> hasEvent, kind |-> kind, promptName |-> promptName,
     contentName |-> contentName, type |-> type, hasContent |-> hasContent,
     wire |-> IF ~json THEN Wire({}, 0)
              ELSE IF hasEvent THEN Wire({"event"}, 1) ELSE Wire({"other"}, 0)]

BadJsonMsg == ClientMsg(FALSE, FALSE, "", "", "", "", FALSE)

PromptStartMsg == ClientMsg(TRUE, TRUE, "promptStart", "p2", "", "", FALSE)

AudioMsg == ClientMsg(TRUE, TRUE, "audioInput", "p1", "a1", "", TRUE)

\* an audioInput whose content is the empty string
EmptyAudioMsg == ClientMsg(TRUE, TRUE, "audioInput", "p1", "a1", "", FALSE)

ContentEndMsg == ClientMsg(TRUE, TRUE, "contentEnd", "p1", "a1", "", FALSE)

\* {"event": {"contentEnd": ..., "textInput": ...}}: two keys under "event"
TwoVariantMsg == [ContentEndMsg EXCEPT !.wire = Wire({"event"}, 2)]

\* {"event": {"contentEnd": ...}, "other": ...}: a second top-level key
ExtraKeyMsg == [ContentEndMsg EXCEPT !.wire = Wire({"event", "other"}, 1)]

\* {"event": {}}: list(data["event"].keys())[0] raises IndexError
EmptyEventMsg == [ClientMsg(TRUE, TRUE, "", "", "", "", FALSE) EXCEPT !.wire = Wire({"event"}, 0)]

\* an entry of the audio queue; audio_bytes 0 is the empty string, n > 0 the
\* payload of the n-th client message
AudioChunk(prompt_name, content_name, audio_bytes) ==
    [prompt_name |-> prompt_name, content_name |-> content_name, audio_bytes |-> audio_bytes]

\* "not audio_bytes or not prompt_name or not content_name"
ChunkIncomplete(c) == c.audio_bytes = 0 \/ c.prompt_name = "" \/ c.content_name = ""

\* an entry of the output queue and of the websocket: what is relayed, and
\* whether it is wrapped as {"raw_data": ...}
OutItem(frame, frameNo, raw) ==
    [frame |-> frame, frameNo |-> frameNo, raw |-> raw,
     wire |-> IF raw THEN Wire({"raw_data"}, 0) ELSE frame.wire]

\* a message the handlers send themselves
StatusItem(what) ==
    [frame |-> Frame(what, "", "", NoToolUse), frameNo |-> 0, raw |-> FALSE,
     wire |-> IF what = "authenticated" THEN BuiltEventWire ELSE Wire({"error", "status"}, 0)]

(***************************************************************************)
(* BedrockStreamManager                                                    *)
(***************************************************************************)
\* __init__ ; created is FALSE while the connection has no manager;
\* client_built_at is the clock reading (seconds) at which bedrock_client was
\* constructed, 0 while there is none
NewManager ==
    [created |-> TRUE, bedrock_client |-> FALSE, last_credential_refresh |-> 0,
     client_built_at |-> 0, stream_response |-> FALSE, is_active |-> FALSE, prompt_name |-> "None", audio_content_name |-> "None",
     toolUseContent |-> NoToolUse, toolUseId |-> "", toolName |-> "",
     audio_input_queue |-> <<>>, output_queue |-> <<>>]

NoManager == [NewManager EXCEPT !.created = FALSE]

NoLocals == [toolResult |-> ToolReturnEmpty, toolContent |-> "", frameNo |-> 0]

NoHistory ==
    [enqueued |-> <<>>, dispatched |-> <<>>, exit |-> "none", opened |-> FALSE,
     openedAt |-> 0, validated |-> 0]

\* send_raw_event: nothing is written unless the stream is there and active
CanSend_Always(m) == TRUE

CanSend(m) == m.stream_response /\ m.is_active

\* the stream after send_raw_event(ev) on manager m
Sent(m, stream, ev) == IF CanSend(m) THEN Append(stream, ev) ELSE stream

\* the status of a toolResult event
ResultStatus(toolResult) == IF toolResult.status = "error" THEN "error" ELSE "success"

\* the three events of a tool result, in the order they are sent
TripleKinds_Swapped == <<"toolResult", "contentStart", "contentEnd">>

TripleKinds == <<"contentStart", "toolResult", "contentEnd">>

\* the event of the triple sent at step k, built when it is sent
TripleEvent(k, m, loc) ==
    StreamEvent("demux", TripleKinds[k], m.prompt_name, loc.toolContent,
                IF k = 1 THEN m.toolUseId ELSE "",
                IF k = 2 THEN ResultStatus(loc.toolResult) ELSE "",
                IF k = 2 THEN loc.toolResult ELSE ToolReturnEmpty,
                0, loc.frameNo)

(***************************************************************************)
(* authenticated_handler and websocket_handler, up to the stream's opening *)
(***************************************************************************)
JwksFetchOk == [fetched |-> TRUE, doc |-> TRUE, kids |-> {"k1"}]

\* authenticated_handler from its start, and websocket_handler up to the
\* creation of the stream manager: no other task of the connection exists yet.
\* answers is what the key-set endpoint may answer if it is asked.
Admit(answers) ==
    /\ hpc = "accept"
    /\ \E fetched \in answers :
        LET \* development mode binds token to True, a truthy value
            token   == IF ~devMode THEN extract_token_from_url(request.path) ELSE Str(<<"T">>)
            jwtOf   == JwtOf(request)
            asked   == ~devMode /\ TruthyStr(token)
                          /\ ReachesJwks(token, jwtOf[token], DeployedConfig)
            jwks    == JwksValue(jwks_cache, fetched)
            result  == IF ~devMode /\ TruthyStr(token)
                       THEN validate_token(token, jwtOf[token], DeployedConfig, jwks)
                       ELSE Invalid
            is_valid  == BoundIsValid(devMode, result)
            result2 == IF ~devMode
                       THEN validate_websocket_request(request.path, jwtOf, DeployedConfig, jwks)
                       ELSE Invalid
            is_valid2 == BoundIsValid(devMode, result2)
            \* the calls of validate_token: one by authenticated_handler when it
            \* has a token, one more through validate_websocket_request
            calls   == IF devMode \/ ~TruthyStr(token) THEN 0
                       ELSE IF ~Truthy(is_valid) THEN 1
                       ELSE IF TruthyStr(extract_token_from_url(request.path)) THEN 2
                       ELSE 1
        IN  /\ jwks_cache' = JwksAfter(jwks_cache, fetched, IF asked THEN calls ELSE 0)
            /\ hist' = [hist EXCEPT !.validated = calls]
            /\ IF ~TruthyStr(token)
               THEN \* no token found
                    /\ clientOut' = Append(clientOut, StatusItem("unauthorized: no token"))
                    /\ hpc' = "closed"
                    /\ sm' = sm
               ELSE IF ~Truthy(is_valid) \/ ~Truthy(is_valid2)
               THEN /\ clientOut' = Append(clientOut, StatusItem("unauthorized"))
                    /\ hpc' = "closed"
                    /\ sm' = sm
               ELSE /\ clientOut' = Append(clientOut, StatusItem("authenticated"))
                    /\ hpc' = "init"
                    /\ sm' = NewManager
    /\ UNCHANGED <<call, devMode, request, wsOpen, clientIn, dpc, dloc, ppc, fpc, framesIn,
                   modelStream, nextUuid>>

\* "if not self.bedrock_client: self._initialize_client()" at clock reading t:
\* a client is constructed only when there is none, whatever its age, and
\* last_credential_refresh is left as the constructor set it
ClientReady(m, t) ==
    IF ~m.bedrock_client THEN [m EXCEPT !.bedrock_client = TRUE, !.client_built_at = t]
    ELSE m

\* initialize_stream: the stream opens; the two tasks are created and run up
\* to their first await while the handler sleeps; times holds the readings
\* the clock may show
InitStreamOk(times) ==
    /\ hpc = "init"
    /\ \E t \in times :
          /\ sm' = [ClientReady(sm, t) EXCEPT !.stream_response = TRUE, !.is_active = TRUE]
          /\ hist' = [hist EXCEPT !.opened = TRUE, !.openedAt = t]
    /\ dpc' = "recv"
    /\ ppc' = "get"
    /\ hpc' = "sleep"
    /\ UNCHANGED <<call, devMode, request, jwks_cache, wsOpen, clientIn, clientOut, dloc, fpc,
                   framesIn, modelStream, nextUuid>>

\* initialize_stream: the call that opens the stream raises; the exception
\* leaves both handlers and the connection ends
InitStreamFail_Swallowed(times) ==
    /\ hpc = "init"
    /\ \E t \in times : sm' = [ClientReady(sm, t) EXCEPT !.is_active = FALSE]
    /\ hpc' = "sleep"
    /\ hist' = [hist EXCEPT !.exit = "open failed"]
    /\ UNCHANGED <<call, devMode, request, jwks_cache, wsOpen, clientIn, clientOut, dpc, dloc,
                   ppc, fpc, framesIn, modelStream, nextUuid>>

InitStreamFail(times) ==
    /\ hpc = "init"
    /\ \E t \in times : sm' = [ClientReady(sm, t) EXCEPT !.is_active = FALSE]
    /\ hpc' = "closed"
    /\ hist' = [hist EXCEPT !.exit = "open failed"]
    /\ UNCHANGED <<call, devMode, request, jwks_cache, wsOpen, clientIn, clientOut, dpc, dloc,
                   ppc, fpc, framesIn, modelStream, nextUuid>>

\* the sleep of initialize_stream is over: forward_responses is created and
\* the handler starts to read the websocket
HandlerStart ==
    /\ hpc = "sleep"
    /\ hpc' = "recv"
    /\ fpc' = "get"
    /\ UNCHANGED <<call, devMode, request, jwks_cache, wsOpen, clientIn, clientOut, sm, dpc,
                   dloc, ppc, framesIn, modelStream, nextUuid, hist>>

(***************************************************************************)
(* websocket_handler: the message loop                                     *)
(***************************************************************************)
\* the manager after the handler has stored what the message names
Noted(m, msg) ==
    IF msg.kind = "promptStart" THEN [m EXCEPT !.prompt_name = msg.promptName]
    ELSE IF msg.kind = "contentStart" /\ msg.type = "AUDIO"
    THEN [m EXCEPT !.audio_content_name = msg.contentName]
    ELSE m

\* where the handler stands after a message: JSONDecodeError and every other
\* exception of the loop body are caught and logged, and the loop goes on
AfterMessage_BadJsonFatal(msg) == IF ~msg.json THEN "closed" ELSE "recv"

AfterMessage(msg) == "recv"

\* whether the handler hands the message to add_audio_chunk
IsAudio_Never(msg) == FALSE

IsAudio(msg) == msg.kind = "audioInput"

\* one pass of "async for message in websocket": the n-th message is read
\* and handled up to the handler's next wait for a message; the client sends
\* at most maxMsgs messages
HandlerRecv(msg, maxMsgs) ==
    /\ hpc = "recv"
    /\ wsOpen
    /\ Len(clientIn) < maxMsgs
    /\ clientIn' = Append(clientIn, msg)
    /\ LET n == Len(clientIn) + 1
       IN  IF ~msg.json \/ ~msg.hasEvent \/ msg.wire.variants = 0
           THEN \* JSONDecodeError and IndexError are caught and logged; no "event":
                \* nothing to do
                UNCHANGED <<sm, modelStream, hist>>
           ELSE IF IsAudio(msg)
           THEN LET chunk == AudioChunk(msg.promptName, msg.contentName,
                                        IF msg.hasContent THEN n ELSE 0)
                IN  /\ sm' = [Noted(sm, msg) EXCEPT
                                 !.audio_input_queue = Append(@, chunk)]
                    /\ hist' = IF ChunkIncomplete(chunk) THEN hist
                               ELSE [hist EXCEPT !.enqueued = Append(@, chunk)]
                    /\ modelStream' = modelStream
           ELSE /\ sm' = Noted(sm, msg)
                \* send_raw_event(data): the client's object, as it was received
                /\ modelStream' = Sent(sm, modelStream,
                                       [StreamEvent("handler", msg.kind, msg.promptName,
                                                    msg.contentName, "", "", ToolReturnEmpty,
                                                    n, 0) EXCEPT !.wire = msg.wire])
                /\ hist' = hist
    /\ hpc' = AfterMessage(msg)
    /\ UNCHANGED <<call, devMode, request, jwks_cache, wsOpen, clientOut, dpc, dloc, ppc, fpc,
                   framesIn, nextUuid>>

\* the client closes its websocket
ClientDisconnect ==
    /\ hpc \in {"sleep", "recv"}
    /\ wsOpen
    /\ wsOpen' = FALSE
    /\ UNCHANGED <<call, devMode, request, jwks_cache, hpc, clientIn, clientOut, sm, dpc, dloc,
                   ppc, fpc, framesIn, modelStream, nextUuid, hist>>

\* the message loop ends on the closed websocket; finally: forward_task.cancel()
HandlerClosed ==
    /\ hpc = "recv"
    /\ ~wsOpen
    /\ hpc' = "closed"
    /\ fpc' = IF fpc = "get" THEN "cancelled" ELSE fpc
    /\ UNCHANGED <<call, devMode, request, jwks_cache, wsOpen, clientIn, clientOut, sm, dpc,
                   dloc, ppc, framesIn, modelStream, nextUuid, hist>>

(***************************************************************************)
(* _process_responses                                                      *)
(***************************************************************************)
\* "while self.is_active" at the top of the loop
LoopOrDone(m) == IF m.is_active THEN "recv" ELSE "done"

\* the finally clause
Deactivated_Kept(m) == m

Deactivated(m) == [m EXCEPT !.is_active = FALSE]

Relayed(m, item) == [m EXCEPT !.output_queue = Append(@, item)]

\* the toolUse branch: the three fields of the accumulator are assigned; a
\* toolUse frame carries toolName and toolUseId, as the model stream's
\* protocol has it
Captured_KeepsId(m, g) ==
    [m EXCEPT !.toolUseContent = g.body, !.toolName = g.toolName,
              !.toolUseId = IF @ = "" THEN g.toolUseId ELSE @]

Captured(m, g) ==
    [m EXCEPT !.toolUseContent = g.body, !.toolName = g.toolName, !.toolUseId = g.toolUseId]

\* a frame is received and handled up to the next await that can suspend:
\* the next receive, or the send of a tool result's contentStart; the stream
\* delivers at most maxFrames frames
DemuxRecv(f, maxFrames) ==
    /\ dpc = "recv"
    /\ Len(framesIn) < maxFrames
    /\ LET n == Len(framesIn) + 1
           g == IF f.kind = "toolUse" THEN [f EXCEPT !.toolUseId = ToolUseIdOf(n)] ELSE f
       IN  /\ framesIn' = Append(framesIn, g)
           /\ IF g.kind = "badUtf8"
              THEN \* UnicodeDecodeError passes "except json.JSONDecodeError" and
                   \* is caught by "except Exception": break, then finally
                   /\ sm' = Deactivated(sm)
                   /\ dpc' = "done"
                   /\ hist' = [hist EXCEPT !.exit = "decode exception"]
                   /\ UNCHANGED <<dloc, modelStream, nextUuid>>
              ELSE IF g.kind = "raw"
              THEN \* json.loads raises JSONDecodeError
                   /\ sm' = Relayed(sm, OutItem(g, n, TRUE))
                   /\ UNCHANGED <<dpc, dloc, modelStream, nextUuid, hist>>
              ELSE IF g.kind = "toolUse"
              THEN /\ sm' = Relayed(Captured(sm, g), OutItem(g, n, FALSE))
                   /\ UNCHANGED <<dpc, dloc, modelStream, nextUuid, hist>>
              ELSE IF g.kind = "contentEnd" /\ g.type = "TOOL"
              THEN LET toolResult == processToolUse(sm.toolName, sm.toolUseContent)
                       loc == [toolResult |-> toolResult, toolContent |-> Uuid(nextUuid),
                               frameNo |-> n]
                       log == [hist EXCEPT !.dispatched =
                                  Append(@, [frameNo |-> n, toolUseId |-> sm.toolUseId,
                                             raised |-> toolResult.raised])]
                   IN  IF toolResult.raised = "JSONDecodeError"
                       THEN \* caught by the handler of the frame's own decoding
                            /\ sm' = Relayed(sm, OutItem(g, n, TRUE))
                            /\ hist' = log
                            /\ UNCHANGED <<dpc, dloc, modelStream, nextUuid>>
                       ELSE IF toolResult.raised # "none"
                       THEN \* "except Exception": break, then finally
                            /\ sm' = Deactivated(sm)
                            /\ dpc' = "done"
                            /\ hist' = [log EXCEPT !.exit = "tool exception"]
                            /\ UNCHANGED <<dloc, modelStream, nextUuid>>
                       ELSE /\ dloc' = loc
                            /\ nextUuid' = nextUuid + 1
                            /\ modelStream' = Sent(sm, modelStream, TripleEvent(1, sm, loc))
                            /\ dpc' = "tool_result"
                            /\ hist' = log
                            /\ sm' = sm
              ELSE /\ sm' = Relayed(sm, OutItem(g, n, FALSE))
                   /\ UNCHANGED <<dpc, dloc, modelStream, nextUuid, hist>>
    /\ UNCHANGED <<call, devMode, request, jwks_cache, hpc, wsOpen, clientIn, clientOut, ppc,
                   fpc>>

\* the send of contentStart has returned: the toolResult event is sent
DemuxSendResult ==
    /\ dpc = "tool_result"
    /\ modelStream' = Sent(sm, modelStream, TripleEvent(2, sm, dloc))
    /\ dpc' = "tool_end"
    /\ UNCHANGED <<call, devMode, request, jwks_cache, hpc, wsOpen, clientIn, clientOut, sm,
                   dloc, ppc, fpc, framesIn, nextUuid, hist>>

\* the send of toolResult has returned: contentEnd is sent, the frame is put
\* on the output queue and the loop goes on
DemuxSendEnd ==
    /\ dpc = "tool_end"
    /\ modelStream' = Sent(sm, modelStream, TripleEvent(3, sm, dloc))
    /\ sm' = Relayed(sm, OutItem(framesIn[dloc.frameNo], dloc.frameNo, FALSE))
    /\ dloc' = NoLocals
    /\ dpc' = LoopOrDone(sm)
    /\ UNCHANGED <<call, devMode, request, jwks_cache, hpc, wsOpen, clientIn, clientOut, ppc,
                   fpc, framesIn, nextUuid, hist>>

\* StopAsyncIteration: the stream has ended
DemuxStreamEnd ==
    /\ dpc = "recv"
    /\ sm' = Deactivated(sm)
    /\ dpc' = "done"
    /\ hist' = [hist EXCEPT !.exit = "stream over"]
    /\ UNCHANGED <<call, devMode, request, jwks_cache, hpc, wsOpen, clientIn, clientOut, dloc,
                   ppc, fpc, framesIn, modelStream, nextUuid>>

\* the receive raises (a ValidationException or anything else)
DemuxRecvError ==
    /\ dpc = "recv"
    /\ sm' = Deactivated(sm)
    /\ dpc' = "done"
    /\ hist' = [hist EXCEPT !.exit = "stream over"]
    /\ UNCHANGED <<call, devMode, request, jwks_cache, hpc, wsOpen, clientIn, clientOut, dloc,
                   ppc, fpc, framesIn, modelStream, nextUuid>>

(***************************************************************************)
(* _process_audio_input                                                    *)
(***************************************************************************)
\* asyncio.Queue.get(): the oldest entry leaves the queue
QueueGet_Newest(q) == [item |-> q[Len(q)], rest |-> SubSeq(q, 1, Len(q) - 1)]

QueueGet(q) == [item |-> Head(q), rest |-> Tail(q)]

\* "while self.is_active" of the pump
PumpLoop(m) == IF m.is_active THEN "get" ELSE "done"

\* audio_input_queue.get() returns a chunk; it is checked and sent
PumpGet ==
    /\ ppc = "get"
    /\ sm.audio_input_queue # <<>>
    /\ LET data == QueueGet(sm.audio_input_queue).item
       IN  /\ sm' = [sm EXCEPT !.audio_input_queue = QueueGet(@).rest]
           /\ IF ChunkIncomplete(data)
              THEN \* "continue"
                   /\ ppc' = PumpLoop(sm)
                   /\ modelStream' = modelStream
              ELSE /\ modelStream' = Sent(sm, modelStream,
                                          StreamEvent("pump", "audioInput", data.prompt_name,
                                                      data.content_name, "", "",
                                                      ToolReturnEmpty, data.audio_bytes, 0))
                   \* a send that writes suspends; one that does not returns at once
                   /\ ppc' = IF CanSend(sm) THEN "sent" ELSE PumpLoop(sm)
    /\ UNCHANGED <<call, devMode, request, jwks_cache, hpc, wsOpen, clientIn, clientOut, dpc,
                   dloc, fpc, framesIn, nextUuid, hist>>

\* the send has returned: back to the top of the loop
PumpResume ==
    /\ ppc = "sent"
    /\ ppc' = PumpLoop(sm)
    /\ UNCHANGED <<call, devMode, request, jwks_cache, hpc, wsOpen, clientIn, clientOut, sm,
                   dpc, dloc, fpc, framesIn, modelStream, nextUuid, hist>>

(***************************************************************************)
(* forward_responses                                                       *)
(***************************************************************************)
\* output_queue.get() returns an item; websocket.send raises ConnectionClosed
\* when the client is gone
ForwardSend ==
    /\ fpc = "get"
    /\ sm.output_queue # <<>>
    /\ sm' = [sm EXCEPT !.output_queue = QueueGet(@).rest]
    /\ IF wsOpen
       THEN /\ clientOut' = Append(clientOut, QueueGet(sm.output_queue).item)
            /\ fpc' = fpc
       ELSE /\ clientOut' = clientOut
            /\ fpc' = "done"
    /\ UNCHANGED <<call, devMode, request, jwks_cache, hpc, wsOpen, clientIn, dpc, dloc, ppc,
                   framesIn, modelStream, nextUuid, hist>>

(***************************************************************************)
(* The connection specifications.  Each lets the environment (the client,  *)
(* the model stream, the key-set endpoint) choose from its own inputs.     *)
(***************************************************************************)
NoCall == [fn |-> "none"]

ValidRequest == Request("segment", Rep(TokenUnit, 6), GoodJwt)

\* the state of a connection that has just been accepted
Accepted(dev, req) ==
    /\ devMode = dev
    /\ request = req
    /\ jwks_cache = [cached |-> FALSE, value |-> JwksFetchFailed, asks |-> 0, fetches |-> 0]
    /\ hpc = "accept"
    /\ wsOpen = TRUE
    /\ clientIn = <<>>
    /\ clientOut = <<>>
    /\ sm = NoManager
    /\ dpc = "idle"
    /\ dloc = NoLocals
    /\ ppc = "idle"
    /\ fpc = "idle"
    /\ framesIn = <<>>
    /\ modelStream = <<>>
    /\ nextUuid = 1
    /\ hist = NoHistory

\* the steps of the running tasks that take no input
RunStep ==
    \/ HandlerStart
    \/ DemuxSendResult
    \/ DemuxSendEnd
    \/ DemuxStreamEnd
    \/ DemuxRecvError
    \/ PumpGet
    \/ PumpResume
    \/ ForwardSend

\* the steps that take no input, initialize_stream at clock reading 1 included
TaskStep ==
    \/ InitStreamOk({1})
    \/ InitStreamFail({1})
    \/ RunStep

(***************************************************************************)
(* Spec: an admitted client that keeps its websocket open and sends audio, *)
(* events and malformed messages while the model asks for a tool           *)
(***************************************************************************)
\* the client sends at most MaxClientMsgs messages
MaxClientMsgs == 2

\* the model stream delivers at most MaxFrames frames
MaxFrames == 2

ClientMsgs == {BadJsonMsg, PromptStartMsg, AudioMsg, EmptyAudioMsg, ContentEndMsg}

OrderFoundFrame == ToolUseFrame("getOrderStatus", "object", "Jaime Lopez")

Frames == {ToolEndFrame, OrderFoundFrame}

Init ==
    /\ call = NoCall
    /\ Accepted(FALSE, ValidRequest)

Next ==
    \/ Admit({JwksFetchOk})
    \/ TaskStep
    \/ \E msg \in ClientMsgs : HandlerRecv(msg, MaxClientMsgs)
    \/ \E f \in Frames : DemuxRecv(f, MaxFrames)

Spec == Init /\ [][Next]_vars

(***************************************************************************)
(* SpecAudio: the client sends audio, complete and empty, while the model  *)
(* asks for a tool                                                         *)
(***************************************************************************)
MaxAudioMsgs == 3

AudioMsgs == {AudioMsg, EmptyAudioMsg}

AudioNext ==
    \/ Admit({JwksFetchOk})
    \/ TaskStep
    \/ \E msg \in AudioMsgs : HandlerRecv(msg, MaxAudioMsgs)
    \/ \E f \in Frames : DemuxRecv(f, MaxFrames)

SpecAudio == Init /\ [][AudioNext]_vars

(***************************************************************************)
(* SpecTools: the model stream sends tool uses of every outcome; the       *)
(* client sends audio                                                      *)
(***************************************************************************)
MaxToolFrames == 3

MaxToolMsgs == 1

ToolFrames ==
    {ToolEndFrame, TextFrame, RawFrame, OrderFoundFrame,
     ToolUseFrame("getOrderStatus", "object", NotAString),
     ToolUseFrame("getOrderStatus", "invalid", Absent),
     ToolUseFrame("unknownTool", "none", Absent)}

ToolsNext ==
    \/ Admit({JwksFetchOk})
    \/ TaskStep
    \/ \E msg \in {AudioMsg} : HandlerRecv(msg, MaxToolMsgs)
    \/ \E f \in ToolFrames : DemuxRecv(f, MaxToolFrames)

SpecTools == Init /\ [][ToolsNext]_vars

(***************************************************************************)
(* SpecAuth: requests of every kind, in and out of development mode; the   *)
(* key-set endpoint may fail; the client may close its websocket           *)
(***************************************************************************)
MaxAuthMsgs == 1

MaxAuthFrames == 2

AuthJwts ==
    {GoodJwt,
     [GoodJwt EXCEPT !.sigOk = FALSE],
     [GoodJwt EXCEPT !.expired = TRUE],
     [GoodJwt EXCEPT !.client_id = "client-2"]}

\* a token in every placement, no token at all, and a path segment too short
\* to be taken for a token
AuthRequests ==
    {Request(pl, Rep(TokenUnit, 6), jwt) : pl \in Placements \cup {"none"}, jwt \in AuthJwts}
        \cup {Request("segment", Rep(TokenUnit, 1), GoodJwt)}

AuthInit ==
    /\ call = NoCall
    /\ \E dev \in BOOLEAN, req \in AuthRequests : Accepted(dev, req)

AuthNext ==
    \/ Admit({JwksFetchOk, JwksFetchFailed})
    \/ TaskStep
    \/ ClientDisconnect
    \/ HandlerClosed
    \/ \E msg \in {ContentEndMsg, AudioMsg} : HandlerRecv(msg, MaxAuthMsgs)
    \/ \E f \in Frames : DemuxRecv(f, MaxAuthFrames)

SpecAuth == AuthInit /\ [][AuthNext]_vars

(***************************************************************************)
(* SpecDispatch: one tool use of every route and every kind of content     *)
(***************************************************************************)
MaxDispatchFrames == 2

DispatchFrames ==
    {ToolEndFrame, OrderFoundFrame,
     ToolUseFrame("getOrderStatus", "object", "JAIME LOPEZ"),
     ToolUseFrame("getOrderStatus", "object", "Nobody"),
     ToolUseFrame("getOrderStatus", "object", NotAString),
     ToolUseFrame("getOrderStatus", "object", Absent),
     ToolUseFrame("getOrderStatus", "object", ""),
     ToolUseFrame("getOrderStatus", "none", Absent),
     ToolUseFrame("getLabResults", "object", "Jaime Lopez"),
     ToolUseFrame("getLabResults", "object", Absent),
     ToolUseFrame("getProductInfo", "object", Absent),
     ToolUseFrame("transferToLiveAgent", "none", Absent),
     ToolUseFrame("unknownTool", "object", "Jaime Lopez"),
     ToolUseFrame("unknownTool", "none", Absent),
     ToolUseFrame("unknownTool", "invalid", Absent)}

DispatchNext ==
    \/ Admit({JwksFetchOk})
    \/ TaskStep
    \/ \E msg \in {AudioMsg} : HandlerRecv(msg, MaxToolMsgs)
    \/ \E f \in DispatchFrames : DemuxRecv(f, MaxDispatchFrames)

SpecDispatch == Init /\ [][DispatchNext]_vars

(***************************************************************************)
(* SpecAdmit: the admission of requests of every kind, and a session that  *)
(* gets no frame from the model                                            *)
(***************************************************************************)
AdmitNext ==
    \/ Admit({JwksFetchOk, JwksFetchFailed})
    \/ InitStreamOk({1})
    \/ InitStreamFail({1})
    \/ HandlerStart
    \/ ClientDisconnect
    \/ HandlerClosed
    \/ DemuxStreamEnd
    \/ PumpGet
    \/ PumpResume
    \/ \E msg \in {ContentEndMsg, AudioMsg} : HandlerRecv(msg, MaxAuthMsgs)

SpecAdmit == AuthInit /\ [][AdmitNext]_vars

(***************************************************************************)
(* SpecProcess: the server admits one connection after another; the cache  *)
(* of the key set lives as long as the process.  get_cognito_jwks() is a   *)
(* synchronous call, so the calls of different connections never overlap.  *)
(***************************************************************************)
\* no connection is accepted after MaxJwksCalls calls of get_cognito_jwks()
MaxJwksCalls == 4

\* websockets.serve: a connection has ended without a session and the next
\* one is accepted
NextConnection(reqs) ==
    /\ hpc = "closed" /\ dpc = "idle"
    /\ jwks_cache.asks < MaxJwksCalls
    /\ \E req \in reqs : request' = req
    /\ hpc' = "accept"
    /\ wsOpen' = TRUE
    /\ clientIn' = <<>>
    /\ clientOut' = <<>>
    /\ sm' = NoManager
    /\ hist' = NoHistory
    /\ UNCHANGED <<call, devMode, jwks_cache, dpc, dloc, ppc, fpc, framesIn, modelStream,
                   nextUuid>>

ProcessNext ==
    \/ Admit({JwksFetchOk, JwksFetchFailed})
    \/ InitStreamFail({1})
    \/ NextConnection(AuthRequests)

SpecProcess == AuthInit /\ [][ProcessNext]_vars

(***************************************************************************)
(* SpecWire: client messages and frames of every outline                   *)
(***************************************************************************)
MaxWireMsgs == 2

MaxWireFrames == 2

WireMsgs == {AudioMsg, TwoVariantMsg, ExtraKeyMsg, EmptyEventMsg}

WireFrames == {ToolEndFrame, OrderFoundFrame, RawFrame, BadUtf8Frame}

WireNext ==
    \/ Admit({JwksFetchOk})
    \/ TaskStep
    \/ \E msg \in WireMsgs : HandlerRecv(msg, MaxWireMsgs)
    \/ \E f \in WireFrames : DemuxRecv(f, MaxWireFrames)

SpecWire == Init /\ [][WireNext]_vars

(***************************************************************************)
(* SpecClock: the stream is initialized at any reading of the clock        *)
(***************************************************************************)
\* the clock shows 1..MaxClock seconds
MaxClock == 2

Clocks == 1..MaxClock

ClockNext ==
    \/ Admit({JwksFetchOk})
    \/ InitStreamOk(Clocks)
    \/ InitStreamFail(Clocks)
    \/ RunStep
    \/ \E msg \in {ContentEndMsg, AudioMsg} : HandlerRecv(msg, MaxAuthMsgs)
    \/ \E f \in Frames : DemuxRecv(f, MaxAuthFrames)

SpecClock == Init /\ [][ClockNext]_vars

\* no connection is being served: the state of the specifications of the
\* pure functions
NoConnection ==
    /\ Accepted(FALSE, ValidRequest)

(***************************************************************************)
(* SpecExtract: extract_token_from_url applied to bounded requests         *)
(***************************************************************************)
ExtractInit ==
    /\ \E pl \in Placements \cup {"apiquery", "bare", "other", "none"}, t \in Tokens :
        call = [fn |-> "extract_token_from_url", placement |-> pl, token |-> t,
                path |-> PathOf(pl, t), ret |-> None, done |-> FALSE]
    /\ NoConnection

ExtractCall ==
    /\ call.fn = "extract_token_from_url"
    /\ ~call.done
    /\ call' = [call EXCEPT !.ret = extract_token_from_url(call.path), !.done = TRUE]
    /\ UNCHANGED connVars

ExtractNext == ExtractCall

SpecExtract == ExtractInit /\ [][ExtractNext]_vars

(***************************************************************************)
(* SpecValidate: validate_token applied to bounded tokens, configurations  *)
(* and key sets                                                            *)
(***************************************************************************)
JwtAttrs ==
    [wellFormed : BOOLEAN, kid : {"", "k1", "k2"}, sigOk : BOOLEAN, expired : BOOLEAN,
     token_use : {"id", "access", "refresh", Absent},
     client_id : {"client-1", "client-2", Absent}, sub : {"user-1"}]

Configs == [USER_POOL_ID : {"", "pool-1"}, CLIENT_ID : {"", "client-1"}]

JwksResults ==
    {JwksFetchFailed,
     [fetched |-> TRUE, doc |-> FALSE, kids |-> {}],
     [fetched |-> TRUE, doc |-> TRUE, kids |-> {}],
     [fetched |-> TRUE, doc |-> TRUE, kids |-> {"k1"}]}

ValidateInit ==
    /\ \E t \in {None, Str(<<>>), Str(Rep(TokenUnit, 6))}, j \in JwtAttrs,
       c \in Configs, k \in JwksResults :
        call = [fn |-> "validate_token", token |-> t, jwt |-> j, cfg |-> c, jwks |-> k,
                ret |-> Invalid, done |-> FALSE]
    /\ NoConnection

ValidateCall ==
    /\ call.fn = "validate_token"
    /\ ~call.done
    /\ call' = [call EXCEPT !.ret = validate_token(call.token, call.jwt, call.cfg, call.jwks),
                            !.done = TRUE]
    /\ UNCHANGED connVars

ValidateNext == ValidateCall

SpecValidate == ValidateInit /\ [][ValidateNext]_vars

\* C9: validate_token fails closed: with no token, a missing configuration, a
\* header without key id, an unavailable key set, a key id that is not in the
\* key set, a token_use other than id/access or a client_id other than the
\* configured one, the result is (False, None).
C9_FailsClosed ==
    (/\ call.fn = "validate_token"
     /\ call.done
     /\ \/ ~TruthyStr(call.token)
        \/ call.cfg.USER_POOL_ID = "" \/ call.cfg.CLIENT_ID = ""
        \/ call.jwt.kid = ""
        \/ ~call.jwks.fetched
        \/ call.jwt.kid \notin call.jwks.kids
        \/ call.jwt.token_use \notin {"id", "access"}
        \/ call.jwt.client_id # call.cfg.CLIENT_ID)
    => (call.ret.valid = FALSE /\ call.ret.claims = NoClaims)

\* a token that is well formed, signed by a known key and unexpired, with an
\* accepted token_use, is refused for its client_id alone
C9_Witness ==
    /\ call.fn = "validate_token" /\ call.done
    /\ TruthyStr(call.token) /\ call.cfg.USER_POOL_ID # "" /\ call.cfg.CLIENT_ID # ""
    /\ call.jwt.wellFormed /\ call.jwt.kid \in call.jwks.kids /\ JwksTruthy(call.jwks)
    /\ call.jwt.sigOk /\ ~call.jwt.expired
    /\ call.jwt.token_use = "access"
    /\ call.jwt.client_id = "client-2"
    /\ call.ret = Invalid

(***************************************************************************)
(* Properties of extract_token_from_url (SpecExtract)                      *)
(***************************************************************************)
\* C8: for the three supported placements (/api/{token}, /api/api/{token},
\* ?token={token}) extract_token_from_url returns exactly the token, also
\* when the token is longer than 50 characters and contains a ".".
C8_ExactToken ==
    (/\ call.fn = "extract_token_from_url"
     /\ call.done
     /\ call.placement \in Placements
     /\ IsJwtShaped(call.token))
    => call.ret = Str(call.token)

(***************************************************************************)
(* Properties of the admission (SpecAuth, SpecAdmit)                       *)
(***************************************************************************)
\* what validate_token answers for the token extracted from the request
ExtractedToken == extract_token_from_url(request.path)

TokenVerdict ==
    validate_token(ExtractedToken, JwtOf(request)[ExtractedToken], DeployedConfig,
                   jwks_cache.value)

ByHandler(e) == e.by = "handler"

ByDemux(e) == e.by = "demux"

ByPump(e) == e.by = "pump"

\* C1: with development mode off, a connection whose extracted token
\* validate_token judges invalid is rejected: the client is sent the
\* unauthorized message, no stream manager is created, no model stream is
\* opened and no client message reaches the model stream.
C1_InvalidTokenRejected ==
    (/\ ~devMode
     /\ hpc # "accept"
     /\ TruthyStr(ExtractedToken)
     /\ ~TokenVerdict.valid)
    => /\ clientOut = <<StatusItem("unauthorized")>>
       /\ ~sm.created
       /\ ~sm.stream_response
       /\ ~hist.opened
       /\ SelectSeq(modelStream, ByHandler) = <<>>

(***************************************************************************)
(* Properties of the tool results (SpecTools)                              *)
(***************************************************************************)
\* what the demuxer has written to the model stream, in order
DemuxEvents == SelectSeq(modelStream, ByDemux)

\* the demuxer is between two frames: every frame received has been handled
DemuxAtRest == dpc \in {"recv", "done"}

\* the frame numbers of the contentEnd TOOL frames that follow a toolUse frame
ToolEnds ==
    {j \in DOMAIN framesIn :
        /\ framesIn[j].kind = "contentEnd" /\ framesIn[j].type = "TOOL"
        /\ \E i \in 1..(j - 1) : framesIn[i].kind = "toolUse"}

\* the toolUse frame that a contentEnd TOOL frame closes: the latest before it
ToolUseBefore(j) ==
    CHOOSE i \in 1..(j - 1) :
        /\ framesIn[i].kind = "toolUse"
        /\ \A k \in (i + 1)..(j - 1) : framesIn[k].kind # "toolUse"

\* the toolUse frames that are followed by a contentEnd TOOL frame
ClosedToolUses == {ToolUseBefore(j) : j \in ToolEnds}

\* the positions on the model stream of the complete triples of a content id:
\* a contentStart, a toolResult and a contentEnd, in that order
TriplesOf(contentName) ==
    {t \in (DOMAIN modelStream) \X (DOMAIN modelStream) \X (DOMAIN modelStream) :
        /\ t[1] < t[2] /\ t[2] < t[3]
        /\ \A n \in 1..3 : ByDemux(modelStream[t[n]])
                              /\ modelStream[t[n]].contentName = contentName
        /\ modelStream[t[1]].kind = "contentStart"
        /\ modelStream[t[2]].kind = "toolResult"
        /\ modelStream[t[3]].kind = "contentEnd"}

\* the complete triples that answer the tool use of a toolUseId
TriplesFor(toolUseId) ==
    UNION {{t \in TriplesOf(c) : modelStream[t[1]].toolUseId = toolUseId} :
             c \in {UuidNames[n] : n \in DOMAIN UuidNames}}

\* the positions of the contentStart events of the tool results
TripleStarts ==
    {i \in DOMAIN modelStream : ByDemux(modelStream[i]) /\ modelStream[i].kind = "contentStart"}

\* C2: for every toolUse frame that is followed by a contentEnd TOOL frame,
\* exactly one contentStart/toolResult/contentEnd triple is sent to the model
\* stream, and its content id differs from that of every earlier triple.
C2_OneTriplePerToolUse ==
    DemuxAtRest =>
        /\ \A i \in ClosedToolUses : Cardinality(TriplesFor(framesIn[i].toolUseId)) = 1
        /\ \A i, j \in TripleStarts :
              i # j => modelStream[i].contentName # modelStream[j].contentName

\* C3: when processToolUse raises while a contentEnd TOOL frame is handled,
\* the demuxer does not end and the session stays active: the model stream
\* still gets a complete triple whose toolResult has status "error".
C3_DispatchFailureSurfaced ==
    \A n \in DOMAIN hist.dispatched :
        LET d == hist.dispatched[n]
        IN  d.raised # "none" =>
              /\ hist.exit # "tool exception"
              /\ (hist.exit = "none" => sm.is_active)
              /\ DemuxAtRest =>
                    \E t \in TriplesFor(d.toolUseId) :
                        /\ modelStream[t[1]].cause = d.frameNo
                        /\ modelStream[t[2]].status = "error"

\* the toolUseId captured from the latest toolUse frame among the first n
LastToolUseId(n) ==
    LET uses == {i \in 1..n : framesIn[i].kind = "toolUse"}
    IN  IF uses = {} THEN ""
        ELSE framesIn[CHOOSE i \in uses : \A k \in uses : k <= i].toolUseId

\* C4: the events of a tool result are written in the order contentStart,
\* toolResult, contentEnd; the three carry the same contentName, which no
\* earlier triple has; the contentStart names the toolUseId of the latest
\* toolUse frame; processToolUse has returned when contentStart is written.
C4_TripleOrder ==
    \A k \in DOMAIN DemuxEvents :
        LET pos   == ((k - 1) % 3) + 1
            first == k - (pos - 1)
            e     == DemuxEvents[k]
        IN  /\ e.kind = <<"contentStart", "toolResult", "contentEnd">>[pos]
            /\ e.contentName = DemuxEvents[first].contentName
            /\ e.cause = DemuxEvents[first].cause
            /\ pos = 1 =>
                  /\ \A j \in 1..(k - 1) : DemuxEvents[j].contentName # e.contentName
                  /\ e.toolUseId = LastToolUseId(e.cause)
                  /\ e.toolUseId # ""
                  /\ \E n \in DOMAIN hist.dispatched :
                        /\ hist.dispatched[n].frameNo = e.cause
                        /\ hist.dispatched[n].raised = "none"

\* a complete triple answers the second of two tool uses
C4_Witness ==
    /\ Len(DemuxEvents) = 3
    /\ DemuxAtRest
    /\ DemuxEvents[1].toolUseId = ToolUseIdOf(2)
    /\ DemuxEvents[1].cause = 3
    /\ DemuxEvents[3].kind = "contentEnd"

(***************************************************************************)
(* Properties of the three tasks (Spec, SpecAudio)                         *)
(***************************************************************************)
\* the pairs (i, j) of stream positions of a triple's contentStart and of
\* its contentEnd
TripleSpans ==
    {p \in (DOMAIN modelStream) \X (DOMAIN modelStream) :
        /\ p[1] < p[2]
        /\ ByDemux(modelStream[p[1]]) /\ modelStream[p[1]].kind = "contentStart"
        /\ ByDemux(modelStream[p[2]]) /\ modelStream[p[2]].kind = "contentEnd"
        /\ modelStream[p[1]].contentName = modelStream[p[2]].contentName}

\* C5, as stated: between the write of a triple's contentStart and the write
\* of its contentEnd no event of another task (an audioInput of the pump, a
\* client event forwarded by the handler) is written to the model stream.
C5_TripleAtomic ==
    \A p \in TripleSpans :
        \A k \in (p[1] + 1)..(p[2] - 1) : ByDemux(modelStream[k])

\* C5, amended: the triple is written by the demuxer alone and in sequence:
\* the only event of the demuxer between a triple's contentStart and its
\* contentEnd is that triple's toolResult, once; what lies between them
\* besides is an audioInput of the pump or a client event of the handler.
C5_TripleSequenced ==
    \A p \in TripleSpans :
        LET between == {k \in (p[1] + 1)..(p[2] - 1) : ByDemux(modelStream[k])}
        IN  /\ Cardinality(between) = 1
            /\ \A k \in between :
                  /\ modelStream[k].kind = "toolResult"
                  /\ modelStream[k].contentName = modelStream[p[1]].contentName
            /\ \A k \in (p[1] + 1)..(p[2] - 1) :
                  \/ k \in between
                  \/ ByPump(modelStream[k]) /\ modelStream[k].kind = "audioInput"
                  \/ ByHandler(modelStream[k])

\* a complete triple with an audioInput of the pump and a client event of
\* the handler between its contentStart and its contentEnd
C5_Witness ==
    \E p \in TripleSpans :
        /\ \E k \in (p[1] + 1)..(p[2] - 1) : ByPump(modelStream[k])
        /\ \E k \in (p[1] + 1)..(p[2] - 1) : ByHandler(modelStream[k])
        /\ \E k \in (p[1] + 1)..(p[2] - 1) : modelStream[k].kind = "toolResult"

\* C6: once is_active is false, the pump and the demuxer leave their loops
\* within one step of the scheduler, also when the pump is waiting on an
\* empty audio queue at that moment.
C6_TasksLeaveLoops ==
    (hist.opened /\ ~sm.is_active) =>
        /\ dpc = "done"
        /\ ppc = "done" \/ ENABLED (PumpGet \/ PumpResume)

\* the payloads of a sequence of chunks or of audioInput events
Payloads(chunks) == [i \in DOMAIN chunks |-> chunks[i].audio_bytes]

EventTags(events) == [i \in DOMAIN events |-> events[i].tag]

IsPrefix(s, t) == Len(s) <= Len(t) /\ s = SubSeq(t, 1, Len(s))

\* the audioInput events of the pump, in the order they were written
PumpEvents == SelectSeq(modelStream, ByPump)

\* the chunks the pump holds or will get: none, as it waits on an empty queue
PumpIdle == ppc = "get" /\ sm.audio_input_queue = <<>>

\* C7: the complete chunks enqueued by add_audio_chunk are written by the
\* pump as audioInput events in the order they were enqueued, none twice and
\* none left out while the session is active, under every interleaving.
C7_AudioFifo ==
    /\ IsPrefix(EventTags(PumpEvents), Payloads(hist.enqueued))
    /\ \A i \in DOMAIN PumpEvents :
          /\ PumpEvents[i].kind = "audioInput"
          /\ PumpEvents[i].promptName = hist.enqueued[i].prompt_name
          /\ PumpEvents[i].contentName = hist.enqueued[i].content_name
    /\ (sm.is_active /\ PumpIdle) => Len(PumpEvents) = Len(hist.enqueued)

\* three chunks were enqueued and all three were written, in their order
C7_Witness ==
    /\ Len(hist.enqueued) = 3
    /\ EventTags(PumpEvents) = <<1, 2, 3>>
    /\ sm.is_active

\* C10: a client message that is not valid JSON does not end the connection
\* or the session: it is dropped, nothing is written to the model stream or
\* to the audio queue for it, and the handler goes on to the next message.
C10_BadJsonDropped ==
    [][\A msg \in ClientMsgs :
          (~msg.json /\ HandlerRecv(msg, MaxClientMsgs)) =>
              /\ modelStream' = modelStream
              /\ sm' = sm
              /\ hist' = hist
              /\ wsOpen' /\ hpc' = "recv"
              /\ UNCHANGED <<dpc, ppc, fpc, clientOut>>]_vars

\* a message that is not JSON was received, and the message after it was
\* forwarded to the model stream
C10_Witness ==
    \E n \in DOMAIN clientIn :
        /\ ~clientIn[n].json
        /\ \E k \in DOMAIN modelStream :
              ByHandler(modelStream[k]) /\ modelStream[k].tag = n + 1

(***************************************************************************)
(* Properties of send_raw_event (Spec)                                     *)
(***************************************************************************)
\* C11: a send on a session that is not active (not yet initialized, or
\* closed) writes nothing to the model stream and does not raise: from a
\* state where is_active is false no step of any task writes to the model
\* stream, and a handler that forwards a client event then stays in its loop.
C11_NoWriteWhenInactive ==
    [][~sm.is_active =>
          /\ modelStream' = modelStream
          /\ hpc = "recv" => hpc' = "recv"]_vars

\* the client messages that the handler passes to send_raw_event
Forwardable(msg) == msg.json /\ msg.hasEvent /\ ~IsAudio(msg)

\* after the stream has ended the handler has passed a client event to
\* send_raw_event and the pump a chunk: neither is on the model stream
C11_Witness ==
    /\ hist.exit = "stream over"
    /\ ~sm.is_active
    /\ hpc = "recv"
    /\ \E n \in DOMAIN clientIn :
          /\ Forwardable(clientIn[n])
          /\ \A k \in DOMAIN modelStream : modelStream[k].tag # n
    /\ \E n \in DOMAIN hist.enqueued :
          /\ sm.audio_input_queue = <<>>
          /\ \A k \in DOMAIN modelStream : modelStream[k].tag # hist.enqueued[n].audio_bytes

(***************************************************************************)
(* Properties of the relay to the client (SpecTools)                       *)
(***************************************************************************)
\* what has been put on the output queue, in order: what the forwarder has
\* sent after the handler's own status message, then what is still queued
IsStatus(item) == item.frameNo = 0

IsRelayed(item) == item.frameNo # 0

Relay == SelectSeq(clientOut, IsRelayed) \o sm.output_queue

\* C12: every frame of the model stream that decodes as JSON is put,
\* unchanged, exactly once on the output queue, whatever its variant
\* (toolUse and contentEnd TOOL included); the events of a tool result that
\* the demuxer writes are not put on the output queue.
C12_EveryFrameRelayedOnce ==
    DemuxAtRest =>
        /\ \A n \in DOMAIN framesIn :
              ~Undecodable(framesIn[n]) =>
                 Cardinality({k \in DOMAIN Relay :
                                 Relay[k] = OutItem(framesIn[n], n, FALSE)}) = 1
        /\ \A k \in DOMAIN Relay :
              /\ Relay[k].frameNo \in DOMAIN framesIn
              /\ Relay[k].frame = framesIn[Relay[k].frameNo]

(***************************************************************************)
(* Properties of the end of a connection and of a session (SpecAuth, Spec) *)
(***************************************************************************)
\* C13: when the client connection closes, the forwarding task is cancelled
\* and is_active is cleared, so that the demuxer and the pump stop: once the
\* handler has left its loop on a closed websocket, no further frame of the
\* model stream is processed and no tool is dispatched.
C13_DisconnectStopsSession ==
    [][(hpc = "closed" /\ ~wsOpen) =>
          /\ fpc \in {"cancelled", "done"}
          /\ ~sm.is_active
          /\ framesIn' = framesIn
          /\ hist'.dispatched = hist.dispatched]_vars

\* C14: when the stream fails or completes (is_active goes from true to
\* false) the client connection is torn down: the handler reads no further
\* client message.
C14_StreamEndClosesConnection ==
    [][(hist.opened /\ ~sm.is_active) => clientIn' = clientIn]_vars

(***************************************************************************)
(* Properties of initialize_stream (SpecClock)                             *)
(***************************************************************************)
\* C15: initialize_stream constructs a client when there is none or when the
\* one it has is more than 1500 seconds old, and records the time of the
\* construction in last_credential_refresh; no client older than 1500
\* seconds is used to open a stream.
C15_ClientFresh ==
    /\ sm.bedrock_client => sm.last_credential_refresh = sm.client_built_at
    /\ hist.opened =>
          /\ sm.bedrock_client
          /\ hist.openedAt - sm.client_built_at <= 1500

(***************************************************************************)
(* Properties of what goes on the wire (SpecWire)                          *)
(***************************************************************************)
\* a JSON object with the single top-level field "event" holding one key
IsEventObject(w) == w.top = {"event"} /\ w.variants = 1

IsToolResult(e) == ByDemux(e) /\ e.kind = "toolResult"

\* the toolUse frame in effect when frame j, a contentEnd TOOL, was handled
UseAt(j) == framesIn[ToolUseBefore(j)]

\* a getorderstatus invocation whose content carries a customerName string
IsOrderStatusUse(u) ==
    /\ Lower(u.toolName) = "getorderstatus"
    /\ u.body.text = "object"
    /\ ~ParamMissing(u.body.customerName)
    /\ u.body.customerName # NotAString

MatchingRecords(name) ==
    {i \in DOMAIN PatientData : Lower(PatientData[i].Name) = Lower(name)}

\* the toolResult events of the getorderstatus invocations carry the status
\* "success" and, with a matching record, the string that starts with
\* "Order Status: ", goes on with the record's status and actionLabel and ends
\* with the record's action; without one, "No orders found for the customer."
OrderStatusAnswers(actionLabel) ==
    /\ \A k \in DOMAIN modelStream :
          LET e == modelStream[k]
          IN  (IsToolResult(e) /\ e.cause \in ToolEnds /\ IsOrderStatusUse(UseAt(e.cause))) =>
                 LET recs == MatchingRecords(UseAt(e.cause).body.customerName)
                 IN  /\ e.status = "success"
                     /\ IF recs # {}
                        THEN \E i \in recs :
                                e.result.result = <<"Order Status: ", PatientData[i].OrderStatus,
                                                    actionLabel, PatientData[i].Action>>
                        ELSE e.result.result = <<"No orders found for the customer.">>
    /\ DemuxAtRest =>
          \A j \in ToolEnds :
              IsOrderStatusUse(UseAt(j)) =>
                  \E k \in DOMAIN modelStream :
                      IsToolResult(modelStream[k]) /\ modelStream[k].cause = j

\* C17, as stated: getorderstatus with a customerName gives, when a record
\* matches, the result "Order Status: <status> , Action: <action>" with the
\* toolResult status "success", and when none matches the result "No orders
\* found for the customer." with the status "success".
C17_OrderStatusAsStated == OrderStatusAnswers(" , Action: ")

\* C17, amended: as stated, but the result of a match reads
\* "Order Status: <status> , Action : <action>", a space before the colon.
C17_OrderStatusAsCoded == OrderStatusAnswers(" , Action : ")

\* a toolResult for a customer with a record was written
C17_WitnessFound ==
    \E k \in DOMAIN modelStream :
        /\ IsToolResult(modelStream[k])
        /\ UseAt(modelStream[k].cause).body.customerName = "JAIME LOPEZ"
        /\ modelStream[k].result.result = <<"Order Status: ", "Shipped", " , Action : ", "Track">>

\* C18: with development mode off, a request whose path yields no token is
\* rejected: the client is sent the error message with the status
\* "unauthorized", validate_token is not called, and no stream manager and no
\* model stream is created.
C18_NoTokenRejected ==
    (~devMode /\ hpc # "accept" /\ ExtractedToken = None) =>
        /\ hpc = "closed"
        /\ clientOut = <<StatusItem("unauthorized: no token")>>
        /\ "status" \in clientOut[1].wire.top
        /\ hist.validated = 0
        /\ ~jwks_cache.cached
        /\ ~sm.created
        /\ ~sm.stream_response /\ ~hist.opened
        /\ modelStream = <<>>

\* a request with a path segment that is too short for a token was rejected
C18_Witness ==
    /\ ~devMode
    /\ hpc = "closed"
    /\ request.placement = "segment"
    /\ ExtractedToken = None
    /\ Len(clientOut) = 1

\* the entry of the dispatch log for frame j
DispatchOf(j) == hist.dispatched[CHOOSE n \in DOMAIN hist.dispatched :
                                     hist.dispatched[n].frameNo = j]

\* an invocation whose customer lookup raises: the name is not a string
LookupFails(u) ==
    /\ Lower(u.toolName) \in {"getorderstatus", "getlabresults"}
    /\ u.body.text = "object"
    /\ u.body.customerName = NotAString

\* C19: an exception that a collaborator raises during the dispatch (the
\* customer lookup failing) is caught inside processToolUse and returned as
\* {status: "error", result: message}; processToolUse does not let it out to
\* the demuxer.
C19_DispatchNeverRaises ==
    DemuxAtRest =>
        \A j \in ToolEnds :
            LookupFails(UseAt(j)) =>
                /\ DispatchOf(j).raised = "none"
                /\ \E k \in DOMAIN modelStream :
                      /\ IsToolResult(modelStream[k])
                      /\ modelStream[k].cause = j
                      /\ modelStream[k].status = "error"
                      /\ modelStream[k].result.hasResult

\* the parameter that a route requires
RequiredParam(u) ==
    IF Lower(u.toolName) = "getproductinfo" THEN u.body.query ELSE u.body.customerName

\* an invocation of a known tool without its required parameter, or without
\* content
LacksParam(u) ==
    /\ Lower(u.toolName) \in {"getproductinfo", "getorderstatus", "getlabresults"}
    /\ \/ u.body.text = "none"
       \/ u.body.text = "object" /\ ParamMissing(RequiredParam(u))

\* C20: for a known tool, an invocation that lacks its required parameter
\* (the parameter is missing or empty, or the content field itself is
\* missing or empty) gives an explanatory result string and no exception,
\* and the tool-result triple is still sent.
C20_MissingParamExplained ==
    DemuxAtRest =>
        \A j \in ToolEnds :
            LacksParam(UseAt(j)) =>
                /\ DispatchOf(j).raised = "none"
                /\ \E t \in TriplesFor(UseAt(j).toolUseId) :
                      /\ modelStream[t[1]].cause = j
                      /\ modelStream[t[2]].result.hasResult
                      /\ modelStream[t[2]].result.result # <<>>

(***************************************************************************)
(* Properties of fatal failures and of the session's life (Spec, SpecAuth) *)
(***************************************************************************)
\* a message of the handlers that reports an error: an object with the fields
\* "error" and "status"
IsErrorItem(item) == IsStatus(item) /\ item.wire.top = {"error", "status"}

\* C21: on a fatal failure after admission (the model stream cannot be
\* opened, or the stream fails or ends while the client is connected) the
\* client is sent a final structured error/status message before its
\* connection closes: when the handler has ended after such a failure and
\* the client has not closed its websocket, the last message sent to the
\* client is an error message.
C21_FinalErrorSent ==
    (hist.exit # "none" /\ hpc = "closed" /\ wsOpen) =>
        /\ clientOut # <<>>
        /\ IsErrorItem(clientOut[Len(clientOut)])

\* C22: each tool invocation is dispatched once: after a toolUse frame has
\* been finalized by a contentEnd TOOL frame, a further contentEnd TOOL frame
\* that comes without a new toolUse frame causes no second call of
\* processToolUse and no second triple for the same toolUseId (of the calls
\* of processToolUse, those that return are counted).
C22_DispatchedOnce ==
    /\ \A i, j \in DOMAIN hist.dispatched :
          (/\ i # j
           /\ hist.dispatched[i].raised = "none"
           /\ hist.dispatched[j].raised = "none") =>
              hist.dispatched[i].toolUseId # hist.dispatched[j].toolUseId
    /\ \A i, j \in TripleStarts :
          i # j => modelStream[i].toolUseId # modelStream[j].toolUseId

\* C23: the session only moves Uninitialized, Active, Closed: is_active
\* becomes true only by a successful opening of the stream, is false whenever
\* the loop of _process_responses has ended (stream completion, an error of
\* the stream, any other exception), and once false after it was true it
\* never becomes true again.
C23_SessionLifecycle ==
    [][/\ (~sm.is_active /\ sm'.is_active) =>
              /\ hpc = "init" /\ ~hist.opened
              /\ sm'.stream_response /\ hist'.opened
       /\ dpc' = "done" => ~sm'.is_active
       /\ (hist.opened /\ ~sm.is_active) => ~sm'.is_active]_vars

\* the session was active and was closed by an exception of the dispatch,
\* and the handler has read a client message since
C23_Witness ==
    /\ hist.opened /\ ~sm.is_active /\ dpc = "done"
    /\ hist.exit = "tool exception"
    /\ clientIn # <<>> /\ modelStream = <<>>

\* C24: when the opening of the model stream fails, the session is left not
\* active, the error leaves initialize_stream and ends the handler, and the
\* session is not half-initialized: _process_responses, _process_audio_input
\* and forward_responses are not started and no client message is read.
C24_OpenFailureClean ==
    hist.exit = "open failed" =>
        /\ ~sm.is_active /\ ~sm.stream_response
        /\ hpc = "closed"
        /\ dpc = "idle" /\ ppc = "idle" /\ fpc = "idle"
        /\ clientIn = <<>> /\ framesIn = <<>> /\ modelStream = <<>>
        /\ sm.audio_input_queue = <<>> /\ sm.output_queue = <<>>

\* the opening failed for an admitted client, after the client was built
C24_Witness ==
    /\ hist.exit = "open failed"
    /\ sm.created /\ sm.bedrock_client
    /\ clientOut = <<StatusItem("authenticated")>>
    /\ wsOpen

(***************************************************************************)
(* Properties of the frames that do not decode (SpecWire, SpecTools)       *)
(***************************************************************************)
\* the tool accumulator of the manager
Accumulator(m) == <<m.toolName, m.toolUseId, m.toolUseContent>>

\* C25: a frame of the model stream that cannot be JSON-decoded is put on
\* the output queue as a raw-data item carrying its payload, is not dropped,
\* does not change the tool accumulator, and does not end the loop of
\* _process_responses or close the session.
C25_UndecodableRelayedRaw ==
    [][\A f \in WireFrames :
          (Undecodable(f) /\ DemuxRecv(f, MaxWireFrames)) =>
              /\ sm'.output_queue =
                    Append(sm.output_queue, OutItem(f, Len(framesIn) + 1, TRUE))
              /\ Accumulator(sm') = Accumulator(sm)
              /\ dpc' = "recv"
              /\ sm'.is_active = sm.is_active
              /\ hist'.exit = hist.exit]_vars

(***************************************************************************)
(* Properties of the unknown tools and of the accumulator (SpecDispatch,   *)
(* SpecTools)                                                              *)
(***************************************************************************)
\* an invocation whose tool name is none of the routes of processToolUse
IsUnknownUse(u) == Lower(u.toolName) \notin KnownTools

\* C26: an unknown tool name gives an empty result object and no exception,
\* and the triple is completed: contentStart, a toolResult with the empty
\* payload and the status "success", and contentEnd are written to the model
\* stream.
C26_UnknownToolEmptyResult ==
    DemuxAtRest =>
        \A j \in ToolEnds :
            IsUnknownUse(UseAt(j)) =>
                /\ DispatchOf(j).raised = "none"
                /\ \E t \in TriplesFor(UseAt(j).toolUseId) :
                      /\ modelStream[t[1]].cause = j
                      /\ modelStream[t[2]].status = "success"
                      /\ modelStream[t[2]].result = ToolReturnEmpty

\* the toolUse frames received so far
ToolUses == {i \in DOMAIN framesIn : framesIn[i].kind = "toolUse"}

\* C27: a toolUse frame that comes while an earlier one has not been
\* finalized overwrites the accumulator (tool name, toolUseId, content)
\* as a whole: the accumulator always holds the three fields of the latest
\* toolUse frame, a contentEnd TOOL frame dispatches that invocation alone,
\* and the triple names its toolUseId and carries its result, never a mix of
\* the fields of two invocations.
C27_LatestToolUseWins ==
    /\ ToolUses # {} =>
          LET u == framesIn[CHOOSE i \in ToolUses : \A k \in ToolUses : k <= i]
          IN  Accumulator(sm) = <<u.toolName, u.toolUseId, u.body>>
    /\ \A n \in DOMAIN hist.dispatched :
          LET d == hist.dispatched[n]
          IN  d.frameNo \in ToolEnds =>
                 /\ d.toolUseId = UseAt(d.frameNo).toolUseId
                 /\ d.raised = processToolUse(UseAt(d.frameNo).toolName,
                                              UseAt(d.frameNo).body).raised
    /\ \A k \in DOMAIN modelStream :
          LET e == modelStream[k]
          IN  /\ (ByDemux(e) /\ e.kind = "contentStart") =>
                    /\ e.cause \in ToolEnds
                    /\ e.toolUseId = UseAt(e.cause).toolUseId
              /\ IsToolResult(e) =>
                    e.result = processToolUse(UseAt(e.cause).toolName, UseAt(e.cause).body)

\* an order-status invocation was overwritten by one of an unknown tool
\* before the contentEnd TOOL frame: the triple answers the second
C27_Witness ==
    /\ Len(framesIn) = 3
    /\ framesIn[1].kind = "toolUse" /\ framesIn[1].toolName = "getOrderStatus"
    /\ framesIn[2].kind = "toolUse" /\ framesIn[2].toolName = "unknownTool"
    /\ framesIn[3].kind = "contentEnd"
    /\ Len(DemuxEvents) = 3
    /\ DemuxEvents[1].toolUseId = "tu-2"
    /\ DemuxEvents[2].result = ToolReturnEmpty

(***************************************************************************)
(* Properties of the key-set cache (SpecProcess)                           *)
(***************************************************************************)
\* C28: the key set is fetched from the endpoint at most once in the life of
\* the process: once the first call of get_cognito_jwks() has returned, with
\* a key set or with None after a failure, every later validate_token call
\* of any connection gets the memoized value and no new fetch is made.
C28_FetchedAtMostOnce ==
    /\ [](/\ jwks_cache.fetches <= 1
          /\ jwks_cache.cached <=> jwks_cache.fetches = 1
          /\ jwks_cache.cached <=> jwks_cache.asks > 0)
    /\ [][jwks_cache.cached =>
             /\ jwks_cache'.cached
             /\ jwks_cache'.value = jwks_cache.value
             /\ jwks_cache'.fetches = jwks_cache.fetches]_vars

\* the first fetch failed, and a later connection with a good token has had
\* its token validated against the memoized None
C28_Witness ==
    /\ jwks_cache.cached /\ jwks_cache.value = JwksFetchFailed
    /\ jwks_cache.asks >= 3 /\ jwks_cache.fetches = 1
    /\ request.jwt = GoodJwt
    /\ hist.validated = 2

(***************************************************************************)
(* Properties of the routing of client messages (SpecWire)                 *)
(***************************************************************************)
\* what the handler has written to the model stream, in order
HandlerEvents == SelectSeq(modelStream, ByHandler)

\* the routing of the client messages that parse and have an "event" field:
\* an audioInput is enqueued on the audio queue and nothing is written for
\* it by the handler; any other message whose "event" holds at least
\* minKeys keys is written once, as it was received, when the session is
\* active; the handler's events are on the model stream in the order of
\* their messages and none is an audioInput
RoutedInOrder ==
    /\ \A k \in DOMAIN HandlerEvents :
          /\ HandlerEvents[k].tag \in DOMAIN clientIn
          /\ clientIn[HandlerEvents[k].tag].kind # "audioInput"
          /\ HandlerEvents[k].kind # "audioInput"
    /\ \A j, k \in DOMAIN HandlerEvents :
          j < k => HandlerEvents[j].tag < HandlerEvents[k].tag

RoutedStep(minKeys) ==
    \A msg \in WireMsgs :
        (msg.json /\ msg.hasEvent /\ HandlerRecv(msg, MaxWireMsgs)) =>
            LET n == Len(clientIn) + 1
            IN  IF msg.kind = "audioInput"
                THEN /\ modelStream' = modelStream
                     /\ Len(sm'.audio_input_queue) = Len(sm.audio_input_queue) + 1
                     /\ sm'.audio_input_queue[Len(sm'.audio_input_queue)].audio_bytes = n
                ELSE (msg.wire.variants >= minKeys /\ sm.stream_response /\ sm.is_active) =>
                        /\ Len(modelStream') = Len(modelStream) + 1
                        /\ SubSeq(modelStream', 1, Len(modelStream)) = modelStream
                        /\ LET e == modelStream'[Len(modelStream')]
                           IN  /\ ByHandler(e) /\ e.tag = n
                               /\ e.kind = msg.kind /\ e.wire = msg.wire

\* C29, as stated: an audioInput event of the client is only enqueued on the
\* audio queue and never written to the model stream by the handler; every
\* other client message with an "event" field is written to the model stream
\* exactly once while the session is active, and these events reach the
\* model stream in the order the client sent them.
C29_RoutingAsStated == []RoutedInOrder /\ [][RoutedStep(0)]_vars

\* C29, amended: as stated, for the client messages whose "event" object
\* holds at least one key; a message whose "event" is an empty object is
\* dropped (IndexError, logged) and nothing is written for it.
C29_RoutingAsCoded == []RoutedInOrder /\ [][RoutedStep(1)]_vars

\* an audioInput was enqueued and not written by the handler, and the event
\* the client sent after it was written to the model stream
C29_Witness ==
    /\ Len(clientIn) = 2
    /\ clientIn[1] = AudioMsg /\ Len(hist.enqueued) = 1
    /\ clientIn[2] = ExtraKeyMsg
    /\ Len(HandlerEvents) = 1 /\ HandlerEvents[1].tag = 2

\* C30: a frame of the model stream that decodes as JSON is never relayed to
\* the client as a raw-data item: also when the content of the pending tool
\* invocation is not valid JSON, the contentEnd TOOL frame is relayed as it
\* was received and not reported as a payload that does not decode.
C30_DecodedNeverRaw ==
    /\ \A k \in DOMAIN Relay :
          Relay[k].raw => Undecodable(framesIn[Relay[k].frameNo])
    /\ DemuxAtRest =>
          \A j \in ToolEnds :
              UseAt(j).body.text = "invalid" =>
                  \E k \in DOMAIN Relay : Relay[k] = OutItem(framesIn[j], j, FALSE)

(***************************************************************************)
(* Properties of the tasks' interleaving on the session's names (Spec)     *)
(***************************************************************************)
\* C31: the three events of one tool result carry the same promptName, also
\* when the handler processes a promptStart of the client, which changes
\* prompt_name, between the writes of the three events.
C31_TripleOnePrompt ==
    \A i, j \in DOMAIN modelStream :
        (/\ ByDemux(modelStream[i]) /\ ByDemux(modelStream[j])
         /\ modelStream[i].contentName = modelStream[j].contentName) =>
            modelStream[i].promptName = modelStream[j].promptName

\* C32: the client's order is kept between audio and other events: when the
\* client sends an audioInput before another event (the contentEnd that
\* closes the audio content), the audioInput is written to the model stream
\* before that event, under every interleaving of the handler and the pump.
C32_AudioBeforeLaterEvent ==
    \A k \in DOMAIN modelStream :
        ByHandler(modelStream[k]) =>
            \A n \in DOMAIN hist.enqueued :
                hist.enqueued[n].audio_bytes < modelStream[k].tag =>
                    \E i \in 1..(k - 1) :
                        /\ ByPump(modelStream[i])
                        /\ modelStream[i].tag = hist.enqueued[n].audio_bytes

\* the contentEnd TOOL frames received while the accumulator was as the
\* constructor left it: no toolUse frame came before them
BareToolEnds ==
    {j \in DOMAIN framesIn :
        /\ framesIn[j].kind = "contentEnd" /\ framesIn[j].type = "TOOL"
        /\ \A i \in 1..(j - 1) : framesIn[i].kind # "toolUse"}

\* C33: a contentEnd TOOL frame that comes when no toolUse frame has been
\* received in the session does not end the loop of _process_responses or
\* close the session, and the frame is still relayed to the client.
C33_BareToolEndHarmless ==
    \A j \in BareToolEnds :
        /\ hist.exit = "tool exception" =>
              hist.dispatched[Len(hist.dispatched)].frameNo # j
        /\ DemuxAtRest =>
              \E k \in DOMAIN Relay : Relay[k] = OutItem(framesIn[j], j, FALSE)

====
